---- MODULE Spec2Model ----
(***************************************************************************)
(* Model of LegalDocumentFinder (Legal-Doc-AI): corpus loading, batch      *)
(* encoding, the pickle cache, the optional FAISS index and the query.     *)
(*                                                                         *)
(* Numbers.  Vectors are pairs of integers in fixed point: Unit stands for *)
(* 1.0, so a unit-length vector has Norm = Unit.  Similarities are in      *)
(* fixed point with ScoreOne = Unit * Unit standing for 1.0.  The encoder  *)
(* only yields vectors whose norm is a whole multiple of Unit, so that     *)
(* normalisation, cosine and squared L2 distance are exact.                *)
(* Optional values (Python None) are sequences of length 0 or 1.           *)
(***************************************************************************)
EXTENDS Integers, Sequences, FiniteSets, TLC

VARIABLES faiss, argsortTie, faissTie, df, embeddings, aliased, index, fs, indexFile, last, main

vars == <<faiss, argsortTie, faissTie, df, embeddings, aliased, index, fs, indexFile, last, main>>

\* ---------------------------------------------------------------- bounds
MaxRows == 2

MaxK == 3

MaxBatch == 2

MaxRawRows == 3

\* ------------------------------------------------------- optional values
None == <<>>

Some(x) == <<x>>

Val(o) == o[1]

\* --------------------------------------------------------------- helpers
Min(a, b) == IF a <= b THEN a ELSE b

SeqsUpTo(S, n) == UNION {[1..m -> S] : m \in 0..n}

Perms(n) == {p \in [1..n -> 1..n] : \A i, j \in 1..n : i /= j => p[i] /= p[j]}

\* ------------------------------------------------------------ the corpus
NA == "NA"

Texts == {"a", "b", "c"}

Dieus == {"D1", "D2"}

RawRow == [dieu : Dieus \cup {NA}, truncated_text : Texts \cup {NA}]

RawFiles == SeqsUpTo(RawRow, MaxRawRows)

DieuOf(t) == IF t = "a" THEN "D1" ELSE "D2"

CorpusFiles == SeqsUpTo({[dieu |-> DieuOf(t), truncated_text |-> t] : t \in Texts}, MaxRows)

\* only the text is tested for a missing value
RECURSIVE dropna_TextOnly(_)
dropna_TextOnly(rows) ==
    IF rows = <<>> THEN <<>>
    ELSE LET r == Head(rows)
         IN  IF r.truncated_text /= NA
             THEN <<r>> \o dropna_TextOnly(Tail(rows))
             ELSE dropna_TextOnly(Tail(rows))

\* DataFrame.dropna(subset=["truncated_text", "dieu"])
RECURSIVE dropna(_)
dropna(rows) ==
    IF rows = <<>> THEN <<>>
    ELSE LET r == Head(rows)
         IN  IF r.truncated_text /= NA /\ r.dieu /= NA
             THEN <<r>> \o dropna(Tail(rows))
             ELSE dropna(Tail(rows))

\* DataFrame.drop_duplicates(subset=["truncated_text"]), keep="first"
RECURSIVE drop_duplicates(_)
drop_duplicates(rows) ==
    IF rows = <<>> THEN <<>>
    ELSE LET n == Len(rows)
             init == drop_duplicates(SubSeq(rows, 1, n - 1))
         IN  IF \E j \in 1..(n - 1) : rows[j].truncated_text = rows[n].truncated_text
             THEN init
             ELSE Append(init, rows[n])

\* pd.read_csv: the rows of the file with the default row labels 0, 1, ...
read_csv(raw) ==
    [i \in 1..Len(raw) |->
        [label |-> i - 1, dieu |-> raw[i].dieu, truncated_text |-> raw[i].truncated_text]]

\* df.reset_index(drop=True): the row labels become the positions 0..N-1
reset_index(rows) == [i \in 1..Len(rows) |-> [rows[i] EXCEPT !.label = i - 1]]

\* duplicates removed before the incomplete rows
CleanRows_DedupFirst(raw) == reset_index(dropna(drop_duplicates(read_csv(raw))))

\* the cleaning chain of load_data
CleanRows(raw) == reset_index(drop_duplicates(dropna(read_csv(raw))))

\* ------------------------------------------------------- the corpus file
\* the two encodings load_data passes to pd.read_csv
Primary == "utf-8-sig"

Fallback == "utf-16"

\* the columns load_data names
Columns == {"dieu", "truncated_text"}

\* a corpus file is what pd.read_csv makes of it under each encoding: None
\* when the call raises, else the parsed table (its columns and rows)
Csv(raw) == [columns |-> Columns, rows |-> raw]

Utf8File(raw) == [e \in {Primary, Fallback} |-> IF e = Primary THEN Some(Csv(raw)) ELSE None]

Utf16File(raw) == [e \in {Primary, Fallback} |-> IF e = Fallback THEN Some(Csv(raw)) ELSE None]

\* a file neither encoding decodes (or a path that does not exist)
Undecodable == [e \in {Primary, Fallback} |-> None]

\* the encodings load_data passes to pd.read_csv, in order
EncodingsTried(file) ==
    IF file[Primary] /= None THEN <<Primary>> ELSE <<Primary, Fallback>>

\* no second attempt
ReadWithFallback_NoFallback(file) == file[Primary]

\* try: read_csv(utf-8-sig)  except Exception: read_csv(utf-16)
ReadWithFallback(file) ==
    IF file[Primary] /= None THEN file[Primary] ELSE file[Fallback]

\* ------------------------------------------------------ vector numerics
Unit == 5

ScoreOne == Unit * Unit

\* the pretrained encoder (tokenizer, model, [CLS] vector) as a fixed
\* deterministic function of the text; "b" is a positive multiple of "a"
Encode(text) ==
    CASE text = "a" -> <<3, 4>>
      [] text = "b" -> <<6, 8>>
      [] text = "c" -> <<0, 5>>
      [] OTHER      -> <<4, -3>>

QueryTexts == {"a", "c", "q"}

Dot(u, v) == u[1] * v[1] + u[2] * v[2]

\* norms are whole multiples of Unit, at most MaxScale * Unit
MaxScale == 2

ISqrt(n) == CHOOSE r \in 0..(MaxScale * Unit) : r * r = n

Norm(v) == ISqrt(Dot(v, v))

\* x / y for an exact quotient of integers of either sign
Quot(x, y) == IF x >= 0 THEN x \div y ELSE -((-x) \div y)

\* v / ||v||  (faiss.normalize_L2 on one row; input_embedding / np.linalg.norm)
NormalizeL2(v) == <<Quot(v[1] * Unit, Norm(v)), Quot(v[2] * Unit, Norm(v))>>

\* the rows left as they are
NormalizeRows_Skipped(m) == m

NormalizeRows(m) == [i \in 1..Len(m) |-> NormalizeL2(m[i])]

\* sklearn cosine_similarity(input_embedding, matrix).flatten()
cosine_similarity(q, m) ==
    [i \in 1..Len(m) |-> Quot(Dot(q, m[i]) * ScoreOne, Norm(q) * Norm(m[i]))]

\* squared Euclidean distance, the metric IndexFlatL2 reports
L2Sqr(u, v) == (u[1] - v[1]) * (u[1] - v[1]) + (u[2] - v[2]) * (u[2] - v[2])

\* ascending order of the positions 1..Len(vals) by value; positions with
\* equal values are ordered by tie, the order the sort implementation of the
\* build happens to produce (numpy's default argsort is not stable)
SortedPositions(vals, tie) ==
    LET n == Len(vals)
        Less(i, j) == vals[i] < vals[j] \/ (vals[i] = vals[j] /\ tie[i] < tie[j])
        Rank(i) == Cardinality({j \in 1..n : Less(j, i)}) + 1
    IN  [r \in 1..n |-> CHOOSE i \in 1..n : Rank(i) = r]

Reverse(s) == [i \in 1..Len(s) |-> s[Len(s) + 1 - i]]

\* similarities.argsort(), as 0-based row indices
argsort(sims, tie) ==
    LET p == SortedPositions(sims, tie) IN [r \in 1..Len(p) |-> p[r] - 1]

\* without the reversal: ascending similarity
TopIndicesCosine_Ascending(sims, tie, top_k) ==
    SubSeq(argsort(sims, tie), 1, Min(top_k, Len(sims)))

\* similarities.argsort()[::-1][:top_k]
TopIndicesCosine(sims, tie, top_k) ==
    SubSeq(Reverse(argsort(sims, tie)), 1, Min(top_k, Len(sims)))

\* distance and label FAISS reports in the slots it cannot fill (k > ntotal)
FLT_MAX == 1000000

NoLabel == -1

\* IndexFlatL2.search(x, k) for one query: k (distance, label) pairs, nearest
\* first, padded with (FLT_MAX, -1) when the index holds fewer than k vectors
IndexSearch(xb, x, k, tie) ==
    LET dis == [i \in 1..Len(xb) |-> L2Sqr(x, xb[i])]
        p == SortedPositions(dis, tie)
    IN  [r \in 1..k |->
            IF r <= Len(xb) THEN [distance |-> dis[p[r]], label |-> p[r] - 1]
            ELSE [distance |-> FLT_MAX, label |-> NoLabel]]

\* ---------------------------------------------------------- the encoder
\* the slice stops one text early
RECURSIVE TextBatches_ShortSlice(_, _, _)
TextBatches_ShortSlice(texts, i, batch_size) ==
    IF i >= Len(texts) THEN <<>>
    ELSE LET batch_texts == SubSeq(texts, i + 1, Min(i + batch_size - 1, Len(texts)))
         IN  <<batch_texts>> \o TextBatches_ShortSlice(texts, i + batch_size, batch_size)

\* the batches of batch_encode_texts: texts[i : i + batch_size] for
\* i = 0, batch_size, 2 * batch_size, ... (i is the 0-based start)
RECURSIVE TextBatches(_, _, _)
TextBatches(texts, i, batch_size) ==
    IF i >= Len(texts) THEN <<>>
    ELSE LET batch_texts == SubSeq(texts, i + 1, Min(i + batch_size, Len(texts)))
         IN  <<batch_texts>> \o TextBatches(texts, i + batch_size, batch_size)

\* one run of the tokenizer and the model per batch: the [CLS] vectors of
\* the batch, one row per text (every text is padded to max_length, so a row
\* does not depend on the other texts of its batch)
EncodeBatches(texts, i, batch_size) ==
    LET batches == TextBatches(texts, i, batch_size)
    IN  [b \in 1..Len(batches) |->
            [j \in 1..Len(batches[b]) |-> Encode(batches[b][j])]]

\* np.concatenate(embeddings, axis=0) of a non-empty list of batches
RECURSIVE Concatenate(_)
Concatenate(batches) ==
    IF batches = <<>> THEN <<>> ELSE Head(batches) \o Concatenate(Tail(batches))

\* encode_text(text)
encode_text(text) == Encode(text)

\* --------------------------------------------------------- the DataFrame
NumRows(d) == Len(d.rows)

TextsOf(d) == [i \in 1..NumRows(d) |-> d.rows[i].truncated_text]

\* positional lookup df.iloc[i] accepts i in -N..N-1; a negative i counts
\* from the end
IlocValid(d, i) == i >= -NumRows(d) /\ i <= NumRows(d) - 1

IlocPos(d, i) == IF i >= 0 THEN i + 1 ELSE NumRows(d) + i + 1

\* ------------------------------------------------------------- last call
\* the operation executed last, its inputs and its outcome (replaced: an
\* index was set when build_index was called and the call put a new one in
\* its place)
NoCall ==
    [op |-> "init", status |-> "ok", error |-> "", ret |-> FALSE, file |-> None,
     attempts |-> <<>>, raw |-> <<>>, query |-> "", texts |-> <<>>, batches |-> <<>>,
     top_k |-> 0, batch_size |-> 0, path |-> "", top_indices |-> <<>>,
     results |-> <<>>, replaced |-> FALSE]

Call(name) == [NoCall EXCEPT !.op = name]

Raised(name) == [NoCall EXCEPT !.op = name, !.status = "error"]

\* ----------------------------------------------------------------- files
\* the paths of the cache and of the saved state
CacheFile == "embeddings_cache.pkl"

StateFile == "custom_state.pkl"

PicklePaths == {CacheFile, StateFile}

\* pickle of an ndarray: its shape and its elements in row-major order
PickleMatrix(m) ==
    [shape |-> <<Len(m), 2>>,
     data |-> [k \in 1..(2 * Len(m)) |-> m[(k + 1) \div 2][2 - (k % 2)]]]

\* the rows come back in reverse order
UnpickleMatrix_RowsReversed(b) ==
    [i \in 1..b.shape[1] |->
        <<b.data[2 * (b.shape[1] + 1 - i) - 1], b.data[2 * (b.shape[1] + 1 - i)]>>]

UnpickleMatrix(b) == [i \in 1..b.shape[1] |-> <<b.data[2 * i - 1], b.data[2 * i]>>]

\* pickle of an attribute that is None or an ndarray
PickleMatrixOpt(e) == IF e = None THEN None ELSE Some(PickleMatrix(Val(e)))

UnpickleMatrixOpt(b) == IF b = None THEN None ELSE Some(UnpickleMatrix(Val(b)))

\* the embedding column is left out of the pickle
PickleTable_NoEmbedding(d) ==
    [index |-> [i \in 1..NumRows(d) |-> d.rows[i].label],
     dieu |-> [i \in 1..NumRows(d) |-> d.rows[i].dieu],
     truncated_text |-> [i \in 1..NumRows(d) |-> d.rows[i].truncated_text],
     embedding |-> None]

\* pickle of a DataFrame: the row labels and the columns, each as an array
PickleTable(d) ==
    [index |-> [i \in 1..NumRows(d) |-> d.rows[i].label],
     dieu |-> [i \in 1..NumRows(d) |-> d.rows[i].dieu],
     truncated_text |-> [i \in 1..NumRows(d) |-> d.rows[i].truncated_text],
     embedding |-> PickleMatrixOpt(d.embedding)]

UnpickleTable(b) ==
    [rows |-> [i \in 1..Len(b.index) |->
                  [label |-> b.index[i], dieu |-> b.dieu[i],
                   truncated_text |-> b.truncated_text[i]]],
     embedding |-> UnpickleMatrixOpt(b.embedding)]

PickleTableOpt(d) == IF d = None THEN None ELSE Some(PickleTable(Val(d)))

UnpickleTableOpt(b) == IF b = None THEN None ELSE Some(UnpickleTable(Val(b)))

\* the content of a pickle file: whether pickle.load returns (a truncated or
\* foreign file makes it raise), the keys of the dictionary it returns and
\* the two pickled values; held records what the writer held in memory when
\* it wrote the file (history, not read by the program)
Pickle(d, e) ==
    [loads |-> TRUE, keys |-> {"df", "embeddings"},
     df |-> PickleTableOpt(d), embeddings |-> PickleMatrixOpt(e),
     held |-> [df |-> d, embeddings |-> e]]

\* files a run did not write: one cut short, and dictionaries lacking a key
Truncated == [Pickle(None, None) EXCEPT !.loads = FALSE]

ForeignPickles ==
    LET d == Some([rows |-> CleanRows(<<[dieu |-> "D2", truncated_text |-> "c"]>>),
                   embedding |-> None])
    IN  {Truncated,
         [Pickle(d, None) EXCEPT !.keys = {"df"}],
         [Pickle(None, None) EXCEPT !.keys = {"embeddings"}]}

\* ------------------------------------------------------------------ main
\* the workflow (main() of the script, or the cells of the notebook run in
\* order): its position, its parameters and the calls it has made in this
\* run, each with its outcome; before records the parameters and the answer
\* of the earlier run that wrote the cache file (history, not read by the
\* program)
NoMain ==
    [pc |-> "idle", variant |-> "script", argv |-> <<>>, args |-> None, unknown |-> <<>>,
     trace |-> <<>>, before |-> None]

Step(name, status, ret) == [op |-> name, status |-> status, ret |-> ret]

\* ----------------------------------------------------------------- state
Init ==
    /\ faiss \in BOOLEAN
    /\ argsortTie \in Perms(MaxRows)
    /\ faissTie \in Perms(MaxRows)
    /\ df = None
    /\ embeddings = None
    /\ aliased = FALSE
    /\ index = None
    /\ fs = [p \in PicklePaths |-> None]
    /\ indexFile = None
    /\ last = NoCall
    /\ main = NoMain

\* LegalDocumentFinder(): a new finder (a new run of main, a re-run of the
\* notebook cell that constructs it); the files on disk stay
NewFinder ==
    /\ df' = None
    /\ embeddings' = None
    /\ index' = None
    /\ aliased' = FALSE
    /\ last' = Call("__init__")
    /\ UNCHANGED <<faiss, argsortTie, faissTie, fs, indexFile>>

\* load_data(file_path): the file is read under the primary encoding and,
\* if that raises, under the fallback; a second failure propagates, and so
\* does the KeyError of dropna / drop_duplicates for a missing column.  The
\* class variants store the cleaned table in self.df, main() assigns it to
\* finder.df; neither assignment is reached when load_data raises
LoadData(file) ==
    /\ LET parsed == ReadWithFallback(file)
           call == [Call("load_data") EXCEPT !.file = Some(file),
                                             !.attempts = EncodingsTried(file)]
       IN  IF parsed = None
           THEN /\ last' = [call EXCEPT !.status = "error", !.error = "decode"]
                /\ UNCHANGED <<df, aliased>>
           ELSE IF ~(Columns \subseteq Val(parsed).columns)
           THEN /\ last' = [call EXCEPT !.status = "error", !.error = "KeyError"]
                /\ UNCHANGED <<df, aliased>>
           ELSE /\ df' = Some([rows |-> CleanRows(Val(parsed).rows), embedding |-> None])
                /\ aliased' = FALSE
                /\ last' = [call EXCEPT !.raw = Val(parsed).rows]
    /\ UNCHANGED <<faiss, argsortTie, faissTie, embeddings, index, fs, indexFile>>

\* batch_encode_texts(texts, batch_size) with the result stored in the
\* finder's embeddings; np.concatenate raises on an empty list of batches
BatchEncodeTextsOf(texts, batch_size) ==
    /\ LET batches == EncodeBatches(texts, 0, batch_size)
           call == [Call("batch_encode_texts") EXCEPT
                       !.batch_size = batch_size, !.texts = texts,
                       !.batches = TextBatches(texts, 0, batch_size)]
       IN  IF batches = <<>>
           THEN /\ last' = [call EXCEPT !.status = "error", !.error = "ValueError"]
                /\ UNCHANGED <<embeddings, aliased>>
           ELSE /\ embeddings' = Some(Concatenate(batches))
                /\ aliased' = FALSE
                /\ last' = call
    /\ UNCHANGED <<faiss, argsortTie, faissTie, df, index, fs, indexFile>>

\* batch_encode_texts(texts, batch_size) of the script: the rows of every
\* batch are collected in one list (extend) and np.array makes the matrix of
\* them, with zero rows for an empty list; the result is assigned to the
\* script's embeddings
ScriptBatchEncodeTextsOf(texts, batch_size) ==
    /\ embeddings' = Some(Concatenate(EncodeBatches(texts, 0, batch_size)))
    /\ aliased' = FALSE
    /\ last' = [Call("script.batch_encode_texts") EXCEPT
                   !.batch_size = batch_size, !.texts = texts,
                   !.batches = TextBatches(texts, 0, batch_size)]
    /\ UNCHANGED <<faiss, argsortTie, faissTie, df, index, fs, indexFile>>

\* batch_encode_texts(finder.df["truncated_text"].tolist(), batch_size)
BatchEncodeTexts(batch_size) ==
    /\ df /= None
    /\ BatchEncodeTextsOf(TextsOf(Val(df)), batch_size)

\* finder.df["embedding"] = list(finder.embeddings): the column holds the
\* rows of the matrix as views, so it shares the matrix's memory
StoreEmbeddingColumn ==
    /\ df /= None
    /\ IF embeddings /= None /\ Len(Val(embeddings)) = NumRows(Val(df))
       THEN /\ df' = Some([Val(df) EXCEPT !.embedding = embeddings])
            /\ aliased' = TRUE
            /\ last' = Call("store_embedding")
       ELSE /\ last' = Raised("store_embedding")
            /\ UNCHANGED <<df, aliased>>
    /\ UNCHANGED <<faiss, argsortTie, faissTie, embeddings, index, fs, indexFile>>

\* pickle.dump({"df": self.df, "embeddings": self.embeddings}, f)
PickleDump(cache_path) ==
    fs' = [fs EXCEPT ![cache_path] = Some(Pickle(df, embeddings))]

\* cache_embeddings(cache_path)
CacheEmbeddings(cache_path) ==
    /\ PickleDump(cache_path)
    /\ last' = Call("cache_embeddings")
    /\ UNCHANGED <<faiss, argsortTie, faissTie, df, embeddings, aliased, index, indexFile>>

\* a file that cannot be read counts as a miss
PickleLoad_MissOnError(cache_path, name) ==
    LET cache == Val(fs[cache_path])
    IN  IF cache.loads /\ {"df", "embeddings"} \subseteq cache.keys
        THEN /\ df' = UnpickleTableOpt(cache.df)
             /\ embeddings' = UnpickleMatrixOpt(cache.embeddings)
             /\ aliased' = FALSE
             /\ last' = [Call(name) EXCEPT !.ret = TRUE]
        ELSE /\ last' = [Call(name) EXCEPT !.ret = FALSE]
             /\ UNCHANGED <<df, embeddings, aliased>>

\* the body of load_cached_embeddings and load_state once the file exists:
\* pickle.load, then self.df = cache["df"], then self.embeddings =
\* cache["embeddings"]; each of the three can raise, and what was assigned
\* before stays assigned.  Unpickling yields a table and a matrix that share
\* no memory
PickleLoad(cache_path, name) ==
    LET cache == Val(fs[cache_path])
    IN  IF ~cache.loads
        THEN /\ last' = [Raised(name) EXCEPT !.error = "UnpicklingError"]
             /\ UNCHANGED <<df, embeddings, aliased>>
        ELSE IF "df" \notin cache.keys
        THEN /\ last' = [Raised(name) EXCEPT !.error = "KeyError"]
             /\ UNCHANGED <<df, embeddings, aliased>>
        ELSE IF "embeddings" \notin cache.keys
        THEN /\ df' = UnpickleTableOpt(cache.df)
             /\ aliased' = FALSE
             /\ last' = [Raised(name) EXCEPT !.error = "KeyError"]
             /\ UNCHANGED embeddings
        ELSE /\ df' = UnpickleTableOpt(cache.df)
             /\ embeddings' = UnpickleMatrixOpt(cache.embeddings)
             /\ aliased' = FALSE
             /\ last' = [Call(name) EXCEPT !.ret = TRUE]

\* a miss clears what the finder holds
LoadCachedEmbeddings_ResetOnMiss(cache_path) ==
    /\ IF fs[cache_path] /= None
       THEN PickleLoad(cache_path, "load_cached_embeddings")
       ELSE /\ last' = [Call("load_cached_embeddings") EXCEPT !.ret = FALSE]
            /\ df' = None
            /\ embeddings' = None
            /\ UNCHANGED aliased
    /\ UNCHANGED <<faiss, argsortTie, faissTie, index, fs, indexFile>>

\* a hit restores the embeddings and keeps the table load_data returned
LoadCachedEmbeddings_KeepsTable(cache_path) ==
    /\ IF fs[cache_path] = None
       THEN /\ last' = [Call("load_cached_embeddings") EXCEPT !.ret = FALSE]
            /\ UNCHANGED <<df, embeddings, aliased>>
       ELSE IF Val(fs[cache_path]).loads /\ {"df", "embeddings"} \subseteq Val(fs[cache_path]).keys
       THEN /\ embeddings' = UnpickleMatrixOpt(Val(fs[cache_path]).embeddings)
            /\ last' = [Call("load_cached_embeddings") EXCEPT !.ret = TRUE]
            /\ UNCHANGED <<df, aliased>>
       ELSE PickleLoad(cache_path, "load_cached_embeddings")
    /\ UNCHANGED <<faiss, argsortTie, faissTie, index, fs, indexFile>>

\* load_cached_embeddings(cache_path) -> bool
LoadCachedEmbeddings(cache_path) ==
    /\ IF fs[cache_path] /= None
       THEN PickleLoad(cache_path, "load_cached_embeddings")
       ELSE /\ last' = [Call("load_cached_embeddings") EXCEPT !.ret = FALSE]
            /\ UNCHANGED <<df, embeddings, aliased>>
    /\ UNCHANGED <<faiss, argsortTie, faissTie, index, fs, indexFile>>

\* save_state(state_path)
SaveState(state_path) ==
    /\ PickleDump(state_path)
    /\ last' = Call("save_state")
    /\ UNCHANGED <<faiss, argsortTie, faissTie, df, embeddings, aliased, index, indexFile>>

\* load_state(state_path)
LoadState(state_path) ==
    /\ IF fs[state_path] /= None
       THEN PickleLoad(state_path, "load_state")
       ELSE /\ last' = [Call("load_state") EXCEPT !.ret = FALSE]
            /\ UNCHANGED <<df, embeddings, aliased>>
    /\ UNCHANGED <<faiss, argsortTie, faissTie, index, fs, indexFile>>

\* the guard without the test for the library
CanBuildIndex_NoLibraryTest == embeddings /= None

\* the guard of build_index
CanBuildIndex == faiss /\ embeddings /= None

\* the vectors are added to the index the finder already has
BuildIndex_AddsToOldIndex ==
    /\ IF CanBuildIndex
       THEN LET normalized == NormalizeRows(Val(embeddings))
            IN  /\ embeddings' = Some(normalized)
                /\ index' = IF index = None THEN Some(normalized)
                            ELSE Some(Val(index) \o normalized)
                /\ df' = IF aliased
                         THEN Some([Val(df) EXCEPT !.embedding = Some(normalized)])
                         ELSE df
                /\ last' = [Call("build_index") EXCEPT !.ret = TRUE,
                                                       !.replaced = index /= None]
       ELSE /\ last' = [Call("build_index") EXCEPT !.ret = FALSE]
            /\ UNCHANGED <<df, embeddings, index>>
    /\ UNCHANGED <<faiss, argsortTie, faissTie, aliased, fs, indexFile>>

\* build_index(): a fresh IndexFlatL2, faiss.normalize_L2 on self.embeddings
\* in place (so also on a table column that shares its memory), then add
BuildIndex ==
    /\ IF CanBuildIndex
       THEN LET normalized == NormalizeRows(Val(embeddings))
            IN  /\ embeddings' = Some(normalized)
                /\ index' = Some(normalized)
                /\ df' = IF aliased
                         THEN Some([Val(df) EXCEPT !.embedding = Some(normalized)])
                         ELSE df
                /\ last' = [Call("build_index") EXCEPT !.ret = TRUE,
                                                       !.replaced = index /= None]
       ELSE /\ last' = [Call("build_index") EXCEPT !.ret = FALSE]
            /\ UNCHANGED <<df, embeddings, index>>
    /\ UNCHANGED <<faiss, argsortTie, faissTie, aliased, fs, indexFile>>

\* save_index(index_path)
SaveIndex ==
    /\ IF index /= None /\ faiss
       THEN /\ indexFile' = index
            /\ last' = [Call("save_index") EXCEPT !.ret = TRUE]
       ELSE /\ last' = [Call("save_index") EXCEPT !.ret = FALSE]
            /\ UNCHANGED indexFile
    /\ UNCHANGED <<faiss, argsortTie, faissTie, df, embeddings, aliased, index, fs>>

\* load_index(index_path)
LoadIndex ==
    /\ IF indexFile /= None /\ faiss
       THEN /\ index' = indexFile
            /\ last' = [Call("load_index") EXCEPT !.ret = TRUE]
       ELSE /\ last' = [Call("load_index") EXCEPT !.ret = FALSE]
            /\ UNCHANGED index
    /\ UNCHANGED <<faiss, argsortTie, faissTie, df, embeddings, aliased, fs, indexFile>>

\* the two search strategies of find_similar_articles: each yields the row
\* indices (top_indices) and the similarities, or raises
SearchFaiss(input_norm, top_k) ==
    LET found == IndexSearch(Val(index), input_norm, top_k, faissTie)
    IN  [ok |-> TRUE,
         top_indices |-> [r \in 1..top_k |-> found[r].label],
         similarities |-> [r \in 1..top_k |-> ScoreOne - Quot(found[r].distance, 2)]]

SearchCosine(input_embedding, top_k) ==
    IF df = None \/ Val(df).embedding = None \/ NumRows(Val(df)) = 0
    THEN [ok |-> FALSE, top_indices |-> <<>>, similarities |-> <<>>]
    ELSE LET matrix == Val(Val(df).embedding)
             similarities == cosine_similarity(input_embedding, matrix)
             top_indices == TopIndicesCosine(similarities, argsortTie, top_k)
         IN  [ok |-> TRUE,
              top_indices |-> top_indices,
              similarities |-> [r \in 1..Len(top_indices) |-> similarities[top_indices[r] + 1]]]

\* self.df.iloc[top_indices][["dieu", "truncated_text"]] with the similarity
\* column attached; label is the row label the result row keeps
ResultRows(d, top_indices, similarities) ==
    [r \in 1..Len(top_indices) |->
        LET pos == IlocPos(d, top_indices[r])
        IN  [label |-> d.rows[pos].label,
             dieu |-> d.rows[pos].dieu,
             truncated_text |-> d.rows[pos].truncated_text,
             similarity |-> similarities[r]]]

\* a search that cannot be done returns an empty result
FindCall_EmptyResult(input_text, top_k) ==
    \E input_embedding \in {encode_text(input_text)} :
       \E found \in {IF index /= None
                     THEN SearchFaiss(NormalizeL2(input_embedding), top_k)
                     ELSE SearchCosine(input_embedding, top_k)} :
          LET call == [Call("find_similar_articles") EXCEPT
                          !.query = input_text, !.top_k = top_k,
                          !.path = IF index /= None THEN "faiss" ELSE "cosine"]
          IN  IF /\ found.ok
                 /\ df /= None
                 /\ \A r \in 1..Len(found.top_indices) :
                        IlocValid(Val(df), found.top_indices[r])
              THEN last' = [call EXCEPT
                              !.top_indices = found.top_indices,
                              !.results = ResultRows(Val(df), found.top_indices,
                                                     found.similarities)]
              ELSE last' = call

\* the body of find_similar_articles: the query is encoded, searched for in
\* the index or by cosine similarity, and the rows found are returned
FindCall(input_text, top_k) ==
    \E input_embedding \in {encode_text(input_text)} :
       \E found \in {IF index /= None
                     THEN SearchFaiss(NormalizeL2(input_embedding), top_k)
                     ELSE SearchCosine(input_embedding, top_k)} :
          LET call == [Call("find_similar_articles") EXCEPT
                          !.query = input_text, !.top_k = top_k,
                          !.path = IF index /= None THEN "faiss" ELSE "cosine"]
          IN  IF /\ found.ok
                 /\ df /= None
                 /\ \A r \in 1..Len(found.top_indices) :
                        IlocValid(Val(df), found.top_indices[r])
              THEN last' = [call EXCEPT
                              !.top_indices = found.top_indices,
                              !.results = ResultRows(Val(df), found.top_indices,
                                                     found.similarities)]
              ELSE last' = [call EXCEPT !.status = "error"]

\* the query drops the index it used
FindSimilarArticles_DropsIndex(input_text, top_k) ==
    /\ FindCall(input_text, top_k)
    /\ index' = None
    /\ UNCHANGED <<faiss, argsortTie, faissTie, df, embeddings, aliased, fs, indexFile>>

\* find_similar_articles(input_text, top_k)
FindSimilarArticles(input_text, top_k) ==
    /\ FindCall(input_text, top_k)
    /\ UNCHANGED <<faiss, argsortTie, faissTie, df, embeddings, aliased, index, fs, indexFile>>

\* ------------------------------------------------------------ parse_args
\* the option strings add_argument declares, by destination
KnownFlags ==
    [data_file |-> "--data_file", cache_file |-> "--cache_file",
     batch_size |-> "--batch_size", use_faiss |-> "--use_faiss"]

Dests == DOMAIN KnownFlags

\* the command-line words of the model: the declared option strings, proper
\* prefixes of them, option strings nothing declares (-f is what the Jupyter
\* kernel passes) and plain words
FlagPrefixes == [data_file |-> {"--data"}, cache_file |-> {}, batch_size |-> {"--batch"},
                 use_faiss |-> {}]

UnknownFlags == {"-f", "--foo"}

\* paths of corpus files
DataWords == {"other.csv", "nocol.csv", "bad.csv", "empty.csv"}

Words == DataWords \cup {"kernel.json", "2", "x"}

Tokens == {KnownFlags[d] : d \in Dests} \cup UNION {FlagPrefixes[d] : d \in Dests}
              \cup UnknownFlags \cup {"kernel.json", "other.csv", "2", "x"}

\* a word that starts with the prefix character "-"
OptionLike(tok) == tok \notin Words

\* int(word) of type=int: the words that are integers, and their values
IntWords == {"2"}

IntOf(word) == IF word = "2" THEN 2 ELSE 0

\* only the option strings themselves select an option
OptionOf_ExactOnly(tok) ==
    IF \E d \in Dests : tok = KnownFlags[d]
    THEN Some(CHOOSE d \in Dests : tok = KnownFlags[d])
    ELSE None

\* the option a word that starts with "-" selects: the one it spells or, as
\* ArgumentParser is constructed with the default allow_abbrev, the one it is
\* an unambiguous prefix of; None for an option string it does not know
OptionOf(tok) ==
    IF \E d \in Dests : tok = KnownFlags[d] \/ tok \in FlagPrefixes[d]
    THEN Some(CHOOSE d \in Dests : tok = KnownFlags[d] \/ tok \in FlagPrefixes[d])
    ELSE None

\* the defaults of the four arguments
DefaultArgs ==
    [data_file |-> "sent_truncated_vbpl_legal_only.csv",
     cache_file |-> CacheFile, batch_size |-> 32, use_faiss |-> FALSE]

\* parser.parse_known_args() from word i on: the namespace and the words
\* left over, or the parser's error (SystemExit)
RECURSIVE ParseFrom(_, _, _, _)
ParseFrom(argv, i, args, unknown) ==
    IF i > Len(argv) THEN [ok |-> TRUE, args |-> args, unknown |-> unknown]
    ELSE LET tok == argv[i]
             opt == OptionOf(tok)
             failed == [ok |-> FALSE, args |-> args, unknown |-> unknown]
         IN  IF ~OptionLike(tok) \/ opt = None
             THEN ParseFrom(argv, i + 1, args, Append(unknown, tok))
             ELSE IF Val(opt) = "use_faiss"
             THEN ParseFrom(argv, i + 1, [args EXCEPT !.use_faiss = TRUE], unknown)
             ELSE IF i + 1 > Len(argv) \/ OptionLike(argv[i + 1])
             THEN failed
             ELSE IF Val(opt) = "batch_size"
             THEN IF argv[i + 1] \in IntWords
                  THEN ParseFrom(argv, i + 2,
                                 [args EXCEPT !.batch_size = IntOf(argv[i + 1])], unknown)
                  ELSE failed
             ELSE ParseFrom(argv, i + 2, [args EXCEPT ![Val(opt)] = argv[i + 1]], unknown)

parse_known_args(argv) == ParseFrom(argv, 1, DefaultArgs, <<>>)

\* parse_args(): main.args is the namespace returned; a parser error ends the
\* process
ParseArgs(argv) ==
    /\ LET parsed == parse_known_args(argv)
       IN  main' = [pc |-> IF parsed.ok THEN "init" ELSE "exit",
                    variant |-> "script",
                    argv |-> argv,
                    args |-> IF parsed.ok THEN Some(parsed.args) ELSE None,
                    unknown |-> parsed.unknown,
                    before |-> main.before,
                    trace |-> <<Step("parse_args", IF parsed.ok THEN "ok" ELSE "error", FALSE)>>]
    /\ last' = IF parse_known_args(argv).ok THEN Call("parse_args") ELSE Raised("parse_args")
    /\ UNCHANGED <<faiss, argsortTie, faissTie, df, embeddings, aliased, index, fs, indexFile>>

\* ------------------------------------------------------------------ main
\* what pd.read_csv makes of the file at a path: the default corpus, another
\* corpus, a corpus without the dieu column, a file no encoding decodes, a
\* corpus without rows; any other path names no file
DataFileAt(path) ==
    CASE path = DefaultArgs.data_file ->
             Utf8File(<<[dieu |-> "D1", truncated_text |-> "a"],
                        [dieu |-> "D2", truncated_text |-> "b"]>>)
      [] path = "other.csv" ->
             Utf16File(<<[dieu |-> "D2", truncated_text |-> "c"],
                         [dieu |-> "D1", truncated_text |-> "a"]>>)
      [] path = "nocol.csv" ->
             [e \in {Primary, Fallback} |->
                 IF e = Primary
                 THEN Some([columns |-> {"truncated_text"}, rows |-> <<[truncated_text |-> "a"]>>])
                 ELSE None]
      [] path = "empty.csv" -> Utf8File(<<>>)
      [] OTHER -> Undecodable

\* the command lines main() is run with
MainArgvs ==
    {<<>>, <<"--use_faiss">>, <<"--batch_size", "2", "--use_faiss">>,
     <<"-f", "kernel.json">>, <<"--data_file", "other.csv", "--use_faiss">>,
     <<"--data_file", "nocol.csv">>, <<"--data_file", "bad.csv">>,
     <<"--data_file", "empty.csv">>, <<"--batch_size", "x">>}

\* the exception is swallowed and main goes on
Proceed_IgnoreError(name, pc) ==
    main' = [main EXCEPT !.pc = pc,
                         !.trace = Append(@, Step(name, last'.status, last'.ret))]

\* main moves to pc when the call made last returned, and ends with the
\* exception when it raised
Proceed(name, pc) ==
    main' = [main EXCEPT !.pc = IF last'.status = "ok" THEN pc ELSE "aborted",
                         !.trace = Append(@, Step(name, last'.status, last'.ret))]

\* the notebook saves the state before the demo search, the script does not
AfterIndex == IF main.variant = "notebook" THEN "save_state" ELSE "find"

AfterEmbeddings == IF Val(main.args).use_faiss THEN "build_index" ELSE AfterIndex

\* the encoder is run whatever load_cached_embeddings returned
AfterCacheLookup_AlwaysEncode(hit) == "batch_encode_texts"

\* if not finder.load_cached_embeddings(args.cache_file): ...
AfterCacheLookup(hit) == IF hit THEN AfterEmbeddings ELSE "batch_encode_texts"

\* cell 3 of the notebook: the parameters are assignments (use_faiss = True)
MainCellParameters ==
    /\ main.pc = "start"
    /\ main' = [main EXCEPT !.pc = "init", !.variant = "notebook",
                            !.args = Some([DefaultArgs EXCEPT !.use_faiss = TRUE])]
    /\ last' = NoCall
    /\ UNCHANGED <<faiss, argsortTie, faissTie, df, embeddings, aliased, index, fs, indexFile>>

\* args = parse_args()
MainParseArgs == main.pc = "start" /\ \E argv \in MainArgvs : ParseArgs(argv)

\* finder = LegalDocumentFinder()
MainNewFinder == main.pc = "init" /\ NewFinder /\ Proceed("__init__", "load_data")

\* finder.df = finder.load_data(args.data_file)
MainLoadData ==
    /\ main.pc = "load_data"
    /\ LoadData(DataFileAt(Val(main.args).data_file))
    /\ Proceed("load_data", "load_cached_embeddings")

\* if not finder.load_cached_embeddings(args.cache_file):
MainLoadCachedEmbeddings ==
    /\ main.pc = "load_cached_embeddings"
    /\ LoadCachedEmbeddings(Val(main.args).cache_file)
    /\ Proceed("load_cached_embeddings", AfterCacheLookup(last'.ret))

\* finder.embeddings = finder.batch_encode_texts(all_texts, batch_size=args.batch_size)
MainBatchEncodeTexts ==
    /\ main.pc = "batch_encode_texts"
    /\ BatchEncodeTexts(Val(main.args).batch_size)
    /\ Proceed("batch_encode_texts", "store_embedding")

\* finder.df["embedding"] = list(finder.embeddings)
MainStoreEmbeddingColumn ==
    /\ main.pc = "store_embedding"
    /\ StoreEmbeddingColumn
    /\ Proceed("store_embedding", "cache_embeddings")

\* finder.cache_embeddings(args.cache_file)
MainCacheEmbeddings ==
    /\ main.pc = "cache_embeddings"
    /\ CacheEmbeddings(Val(main.args).cache_file)
    /\ Proceed("cache_embeddings", AfterEmbeddings)

\* if args.use_faiss: finder.build_index()
MainBuildIndex ==
    /\ main.pc = "build_index"
    /\ BuildIndex
    /\ Proceed("build_index", IF main.variant = "notebook" THEN "save_index" ELSE "find")

\* cell 4 of the notebook: finder.save_index(index_file)
MainSaveIndex ==
    /\ main.pc = "save_index"
    /\ SaveIndex
    /\ Proceed("save_index", "save_state")

\* cell 4 of the notebook: finder.save_state(state_file)
MainSaveState ==
    /\ main.pc = "save_state"
    /\ SaveState(StateFile)
    /\ Proceed("save_state", "find")

\* results = finder.find_similar_articles(demo_text), with the default top_k,
\* and the loop that prints the results
MainFind ==
    /\ main.pc = "find"
    /\ FindSimilarArticles("q", 5)
    /\ Proceed("find_similar_articles", "done")

\* the process has ended; main() is run anew, the files on disk stay
MainRerun ==
    /\ main.pc \in {"done", "aborted", "exit"}
    /\ main' = [NoMain EXCEPT !.pc = "start"]
    /\ last' = NoCall
    /\ UNCHANGED <<faiss, argsortTie, faissTie, df, embeddings, aliased, index, fs, indexFile>>

\* the demo search with any query text and any k
MainQuery ==
    /\ main.pc = "find"
    /\ \E input_text \in QueryTexts, top_k \in 1..MaxK :
           FindSimilarArticles(input_text, top_k)
    /\ Proceed("find_similar_articles", "done")

\* the process has ended and main() is run anew; the files on disk stay.  A
\* run that wrote the cache file and answered its query is remembered
MainNextRun ==
    /\ main.pc \in {"done", "aborted", "exit"}
    /\ main' = [NoMain EXCEPT
                   !.pc = "start",
                   !.before =
                       IF /\ main.pc = "done"
                          /\ \E i \in 1..Len(main.trace) : main.trace[i].op = "cache_embeddings"
                       THEN Some([args |-> Val(main.args), variant |-> main.variant,
                                  answer |-> last])
                       ELSE main.before]
    /\ last' = NoCall
    /\ UNCHANGED <<faiss, argsortTie, faissTie, df, embeddings, aliased, index, fs, indexFile>>

NextMain ==
    \/ MainParseArgs
    \/ MainCellParameters
    \/ MainNewFinder
    \/ MainLoadData
    \/ MainLoadCachedEmbeddings
    \/ MainBatchEncodeTexts
    \/ MainStoreEmbeddingColumn
    \/ MainCacheEmbeddings
    \/ MainBuildIndex
    \/ MainSaveIndex
    \/ MainSaveState
    \/ MainFind
    \/ MainRerun

\* the workflow run any number of times; at the first run the cache file is absent
\* or is a file no run wrote
InitMain ==
    /\ faiss \in BOOLEAN
    /\ argsortTie \in Perms(MaxRows)
    /\ faissTie \in Perms(MaxRows)
    /\ df = None
    /\ embeddings = None
    /\ aliased = FALSE
    /\ index = None
    /\ \E c \in {None} \cup {Some(x) : x \in ForeignPickles} :
           fs = [p \in PicklePaths |-> IF p = CacheFile THEN c ELSE None]
    /\ indexFile = None
    /\ last = NoCall
    /\ main = [NoMain EXCEPT !.pc = "start"]

SpecMain == InitMain /\ [][NextMain]_vars

\* runs of the workflow one after the other from a disk without a cache
\* file, each with a query of its own
NextRuns ==
    \/ MainParseArgs
    \/ MainCellParameters
    \/ MainNewFinder
    \/ MainLoadData
    \/ MainLoadCachedEmbeddings
    \/ MainBatchEncodeTexts
    \/ MainStoreEmbeddingColumn
    \/ MainCacheEmbeddings
    \/ MainBuildIndex
    \/ MainSaveIndex
    \/ MainSaveState
    \/ MainQuery
    \/ MainNextRun

InitRuns == InitMain /\ fs[CacheFile] = None

SpecRuns == InitRuns /\ [][NextRuns]_vars

\* the finder in memory: load, encode, index, query
Next ==
    \/ \E raw \in CorpusFiles : LoadData(Utf8File(raw)) /\ UNCHANGED main
    \/ \E batch_size \in 1..MaxBatch : BatchEncodeTexts(batch_size) /\ UNCHANGED main
    \/ StoreEmbeddingColumn /\ UNCHANGED main
    \/ BuildIndex /\ UNCHANGED main
    \/ \E input_text \in QueryTexts, top_k \in 1..MaxK :
          FindSimilarArticles(input_text, top_k) /\ UNCHANGED main

Spec == Init /\ [][Next]_vars

\* the finder with its files: two corpus files, the cache, the saved state
\* and the saved index, over several runs
StoreCorpora ==
    {<<[dieu |-> "D1", truncated_text |-> "a"], [dieu |-> "D2", truncated_text |-> "b"]>>,
     <<[dieu |-> "D2", truncated_text |-> "c"]>>}

NextStore ==
    \/ NewFinder /\ UNCHANGED main
    \/ \E raw \in StoreCorpora : LoadData(Utf8File(raw)) /\ UNCHANGED main
    \/ BatchEncodeTexts(MaxBatch) /\ UNCHANGED main
    \/ StoreEmbeddingColumn /\ UNCHANGED main
    \/ CacheEmbeddings(CacheFile) /\ UNCHANGED main
    \/ LoadCachedEmbeddings(CacheFile) /\ UNCHANGED main
    \/ SaveState(StateFile) /\ UNCHANGED main
    \/ LoadState(StateFile) /\ UNCHANGED main
    \/ BuildIndex /\ UNCHANGED main
    \/ SaveIndex /\ UNCHANGED main
    \/ LoadIndex /\ UNCHANGED main
    \/ FindSimilarArticles("a", MaxK) /\ UNCHANGED main

SpecStore == Init /\ [][NextStore]_vars

\* files that decode under one encoding, under both or under none, and files
\* that decode but lack a column
EncodedFiles ==
    LET one == <<[dieu |-> "D1", truncated_text |-> "a"]>>
        other == <<[dieu |-> "D2", truncated_text |-> "c"]>>
        NoDieu == [columns |-> {"truncated_text"}, rows |-> <<[truncated_text |-> "a"]>>]
        NoText == [columns |-> {"dieu"}, rows |-> <<[dieu |-> "D1"]>>]
    IN  {Utf8File(one), Utf16File(one), Utf16File(other), Undecodable,
         [e \in {Primary, Fallback} |-> IF e = Primary THEN Some(Csv(one)) ELSE Some(Csv(other))],
         [e \in {Primary, Fallback} |-> IF e = Primary THEN Some(NoDieu) ELSE Some(Csv(one))],
         [e \in {Primary, Fallback} |-> IF e = Primary THEN Some(NoText) ELSE None],
         [e \in {Primary, Fallback} |-> IF e = Fallback THEN Some(NoDieu) ELSE None]}

\* load_data alone: applied first to any raw table of at most MaxRawRows
\* rows (its result depends on the file only), and at any time to a file of
\* EncodedFiles
NextLoad ==
    \/ \E raw \in RawFiles : last.op = "init" /\ LoadData(Utf8File(raw)) /\ UNCHANGED main
    \/ \E file \in EncodedFiles : LoadData(file) /\ UNCHANGED main

\* load_data reads neither the index library nor a sort order: one library
\* setting stands for all
InitLoad ==
    /\ Init
    /\ faiss
    /\ argsortTie = [i \in 1..MaxRows |-> i]
    /\ faissTie = [i \in 1..MaxRows |-> i]

SpecLoad == InitLoad /\ [][NextLoad]_vars

\* batch_encode_texts alone, the method of the class and the function of the
\* script, over every list of at most MaxTexts texts
MaxTexts == 4

NextEncode ==
    \/ \E texts \in SeqsUpTo(Texts, MaxTexts), batch_size \in 1..MaxBatch :
           BatchEncodeTextsOf(texts, batch_size) /\ UNCHANGED main
    \/ \E texts \in SeqsUpTo(Texts, MaxTexts), batch_size \in 1..MaxBatch :
           ScriptBatchEncodeTextsOf(texts, batch_size) /\ UNCHANGED main

SpecEncode == InitLoad /\ [][NextEncode]_vars

\* parse_args alone, over every command line of at most MaxArgs words
MaxArgs == 3

NextArgs == \E argv \in SeqsUpTo(Tokens, MaxArgs) : main.pc = "idle" /\ ParseArgs(argv)

SpecArgs == InitLoad /\ [][NextArgs]_vars

\* ------------------------------------------------------------ the claims
FindCalled == last.op = "find_similar_articles"

FindOk == FindCalled /\ last.status = "ok"

\* number of rows of the article table
N == NumRows(Val(df))

\* C1: for a corpus of N >= 1 rows and k >= 1, find_similar_articles returns
\* exactly min(k, N) result rows, on the index path as on the brute-force path
C1_ResultLength ==
    (FindOk /\ N >= 1) => Len(last.results) = Min(last.top_k, N)

\* C2: every returned row is the article stored at the row index the search
\* returned, that index lies in 0..N-1, and the attached score is the
\* similarity of that row's embedding to the query
C2_RowsMatchSearch ==
    FindOk =>
        \A r \in 1..Len(last.results) :
            LET i == last.top_indices[r]
                row == last.results[r]
            IN  /\ i \in 0..(N - 1)
                /\ row.label = i
                /\ row.dieu = Val(df).rows[i + 1].dieu
                /\ row.truncated_text = Val(df).rows[i + 1].truncated_text
                /\ row.similarity =
                       cosine_similarity(Encode(last.query), <<Encode(row.truncated_text)>>)[1]

\* C3: on the brute-force path with k >= N the result has exactly N rows, every
\* corpus row appears exactly once, and the scores are non-increasing
C3_BruteForceCoversAll ==
    (FindOk /\ last.path = "cosine" /\ last.top_k >= N) =>
        /\ Len(last.results) = N
        /\ \A i \in 0..(N - 1) :
               Cardinality({r \in 1..Len(last.results) : last.results[r].label = i}) = 1
        /\ \A r \in 1..(Len(last.results) - 1) :
               last.results[r].similarity >= last.results[r + 1].similarity

C3_Witness ==
    /\ FindOk /\ last.path = "cosine" /\ last.top_k >= N /\ N >= 2
    /\ last.results[1].similarity > last.results[2].similarity

\* C4: on the brute-force path the results are in descending similarity and
\* rows of equal similarity are in ascending order of their row index
C4_StableTieBreak ==
    (FindOk /\ last.path = "cosine") =>
        \A r, s \in 1..Len(last.results) :
            r < s =>
                \/ last.results[r].similarity > last.results[s].similarity
                \/ /\ last.results[r].similarity = last.results[s].similarity
                   /\ last.results[r].label < last.results[s].label

\* C5: on the brute-force path, a query vector identical to the embedding of
\* row i makes row i the top-1 result with similarity 1.0, also when another
\* row's embedding is equal to or a positive multiple of row i's
C5_IdenticalQueryIsTop1 ==
    (FindOk /\ last.path = "cosine") =>
        \A i \in 1..N :
            Val(Val(df).embedding)[i] = encode_text(last.query) =>
                /\ last.results[1].label = i - 1
                /\ last.results[1].similarity = ScoreOne

\* the brute-force similarities of the query of the last call to the table's
\* embedding column
LastCosine == cosine_similarity(encode_text(last.query), Val(Val(df).embedding))

\* one row's similarity is strictly above every other row's
ClearTop(sims) ==
    \E i \in 1..Len(sims) : \A j \in 1..Len(sims) : j /= i => sims[i] > sims[j]

\* the index holds the (normalised) rows of the table's embedding column
IndexOverTable ==
    /\ index /= None /\ df /= None /\ Val(df).embedding /= None
    /\ Val(index) = NormalizeRows(Val(Val(df).embedding))

\* C6: over the same corpus and the same query, the index strategy returns
\* the top-1 row the brute-force cosine strategy returns whenever the best
\* similarity is strictly above the runner-up's
C6_Top1Agreement ==
    (FindOk /\ last.path = "faiss" /\ IndexOverTable /\ ClearTop(LastCosine)) =>
        last.results[1].label = TopIndicesCosine(LastCosine, argsortTie, 1)[1]

C6_Witness ==
    /\ FindOk /\ last.path = "faiss" /\ IndexOverTable /\ ClearTop(LastCosine)
    /\ N >= 2
    /\ last.results[1].label = 1

\* C7: with the index library unavailable, build_index raises nothing, changes
\* neither the index (unset) nor the table nor the matrix, and every query
\* takes the brute-force path
C7_NoLibraryFallback ==
    /\ [](~faiss => (index = None /\ (FindCalled => last.path = "cosine")))
    /\ [][(~faiss /\ last'.op = "build_index") =>
            /\ last'.status = "ok"
            /\ index' = None
            /\ df' = df
            /\ embeddings' = embeddings]_vars

C7_Witness ==
    ~faiss /\ last.op = "build_index" /\ embeddings /= None /\ index = None

\* C8: once the corpus embeddings have changed, no query is answered from an
\* index built from other embeddings: whenever a query takes the index path,
\* the index holds the normalised rows of the current embedding matrix
C8_NoStaleIndexAnswer ==
    (FindCalled /\ last.path = "faiss") =>
        /\ embeddings /= None
        /\ Val(index) = NormalizeRows(Val(embeddings))

\* C9: whenever embeddings are set, the matrix has as many rows as the article
\* table and row i is (up to the normalisation of build_index) the embedding
\* of article i's text
C9_EmbeddingsAligned ==
    embeddings /= None =>
        /\ df /= None
        /\ Len(Val(embeddings)) = N
        /\ \A i \in 1..N :
               NormalizeL2(Val(embeddings)[i]) =
                   NormalizeL2(Encode(Val(df).rows[i].truncated_text))

\* load_data was called last and returned a table
LoadOk == last.op = "load_data" /\ last.status = "ok"

\* the raw table load_data read last, and the table it returned
Raw == last.raw

Complete(p) == Raw[p].truncated_text /= NA /\ Raw[p].dieu /= NA

\* the p-th raw row is the first row of the file with its text
FirstInFile(p) == \A o \in 1..(p - 1) : Raw[o].truncated_text /= Raw[p].truncated_text

\* the p-th raw row is the first complete row of the file with its text
FirstComplete(p) ==
    \A o \in 1..(p - 1) : Complete(o) => Raw[o].truncated_text /= Raw[p].truncated_text

\* the table holds exactly the raw rows at the positions Kept, in file order
TableIs(Kept) ==
    /\ N = Cardinality(Kept)
    /\ \A i \in 1..N :
           \E p \in Kept :
               /\ Cardinality({o \in Kept : o < p}) = i - 1
               /\ Val(df).rows[i].dieu = Raw[p].dieu
               /\ Val(df).rows[i].truncated_text = Raw[p].truncated_text
               /\ Val(df).rows[i].label = i - 1

DistinctTexts ==
    \A i, j \in 1..N : i /= j => Val(df).rows[i].truncated_text /= Val(df).rows[j].truncated_text

\* C10 as stated: the table load_data returns has no two rows with the same
\* text, and holds, in file order, the first occurrence in the file of each
\* text (rows lacking a field being dropped)
C10_FirstInFileKept ==
    LoadOk =>
        /\ DistinctTexts
        /\ TableIs({p \in 1..Len(Raw) : Complete(p) /\ FirstInFile(p)})

\* C10 amended: the table load_data returns has no two rows with the same
\* text, and holds, in file order, of the rows that have both identifier and
\* text, the first one with each text
C10_FirstCompleteKept ==
    LoadOk =>
        /\ DistinctTexts
        /\ TableIs({p \in 1..Len(Raw) : Complete(p) /\ FirstComplete(p)})

C10_Witness ==
    /\ LoadOk /\ N = 2 /\ Len(Raw) = 3
    /\ \A p \in 1..3 : Complete(p)
    /\ Raw[1].truncated_text = Raw[2].truncated_text
    /\ Val(df).rows[1].dieu = Raw[1].dieu
    /\ Val(df).rows[2].truncated_text = Raw[3].truncated_text
    /\ Val(df).rows[2].label = 1

\* the p-th raw row is a row of the table
Kept(p) ==
    \E i \in 1..N :
        /\ Val(df).rows[i].dieu = Raw[p].dieu
        /\ Val(df).rows[i].truncated_text = Raw[p].truncated_text

\* C11: load_data drops every row that lacks its identifier or its text, and
\* such a row causes no other row to be dropped: a row that has both fields
\* and whose text no earlier row with both fields has is kept, also when an
\* earlier row lacking its identifier has the same text
C11_IncompleteRowsOnlyDropped ==
    LoadOk =>
        /\ \A i \in 1..N :
               Val(df).rows[i].dieu /= NA /\ Val(df).rows[i].truncated_text /= NA
        /\ \A p \in 1..Len(Raw) : (Complete(p) /\ FirstComplete(p)) => Kept(p)

C11_Witness ==
    /\ LoadOk /\ Len(Raw) = 3
    /\ Raw[1].dieu = NA /\ Raw[1].truncated_text /= NA
    /\ Complete(2) /\ Raw[2].truncated_text = Raw[1].truncated_text
    /\ Raw[3].truncated_text = NA
    /\ N = 1 /\ Kept(2)

\* the file load_data was given last
LastFile == Val(last.file)

\* C12: load_data tries utf-8-sig first and utf-16 only after utf-8-sig
\* failed, once; the table comes from the first encoding that decodes; if
\* both fail the call raises after these two attempts, and a call that raises
\* leaves the finder's article table as it was
C12_EncodingFallback ==
    /\ [](last.op = "load_data" =>
            /\ last.attempts \in {<<Primary>>, <<Primary, Fallback>>}
            /\ (Len(last.attempts) = 2) = (LastFile[Primary] = None)
            /\ (last.error = "decode") = (LastFile[Primary] = None /\ LastFile[Fallback] = None)
            /\ (last.error = "decode") => last.status = "error"
            /\ last.status = "ok" =>
                   Raw = Val(LastFile[last.attempts[Len(last.attempts)]]).rows)
    /\ [][(last'.op = "load_data" /\ last'.status = "error") => df' = df]_vars

C12_Witness ==
    /\ last.op = "load_data" /\ last.status = "error" /\ last.error = "decode"
    /\ last.attempts = <<Primary, Fallback>>
    /\ df /= None /\ N = 2

\* the table pd.read_csv returned in the last call of load_data (None when
\* every attempt raised)
LastParsed == LastFile[last.attempts[Len(last.attempts)]]

\* the calls of this run, in order
TraceOps == [i \in 1..Len(main.trace) |-> main.trace[i].op]

\* C13: when the corpus file decodes but lacks the identifier or the text
\* column, load_data raises: no table is returned or stored in the finder,
\* main ends there, and no encoding, caching, index or search step follows
C13_MissingColumnFatal ==
    /\ []((last.op = "load_data" /\ LastParsed /= None
              /\ ~(Columns \subseteq Val(LastParsed).columns)) =>
            /\ last.status = "error"
            /\ df = None
            /\ embeddings = None
            /\ main.pc = "aborted"
            /\ TraceOps = <<"parse_args", "__init__", "load_data">>)
    /\ [][main.pc = "aborted" => (main'.pc = "start" /\ df' = df /\ fs' = fs)]_vars

C13_Witness ==
    /\ last.op = "load_data" /\ last.error = "KeyError"
    /\ main.pc = "aborted"
    /\ fs[CacheFile] /= None /\ Val(fs[CacheFile]).loads

\* positions of the calls of a method in this run
Calls(name) == {i \in 1..Len(main.trace) : main.trace[i].op = name}

\* position of the cache lookup of this run (0: not reached yet)
Lookup == IF Calls("load_cached_embeddings") = {} THEN 0
          ELSE CHOOSE i \in Calls("load_cached_embeddings") : TRUE

\* the cache file existed at the lookup: the call returned True or raised
\* while reading it
CacheExisted == Lookup > 0 /\ (main.trace[Lookup].ret \/ main.trace[Lookup].status = "error")

CacheAbsent == Lookup > 0 /\ ~CacheExisted

\* calls that wrote a file
Wrote(i) ==
    \/ main.trace[i].op \in {"cache_embeddings", "save_state"}
    \/ main.trace[i].op = "save_index" /\ main.trace[i].ret

\* on a miss the corpus is encoded once, right after the lookup, and any
\* index build or query comes after the persist that followed the encoding
MissOrder ==
    CacheAbsent =>
        /\ Cardinality(Calls("batch_encode_texts")) <= 1
        /\ Len(main.trace) > Lookup => main.trace[Lookup + 1].op = "batch_encode_texts"
        /\ \A c \in Calls("cache_embeddings") :
               \E e \in Calls("batch_encode_texts") : e < c /\ main.trace[e].status = "ok"
        /\ \A j \in Calls("build_index") \cup Calls("find_similar_articles") :
               \E c \in Calls("cache_embeddings") : c < j
        /\ main.pc = "done" =>
               /\ Cardinality(Calls("batch_encode_texts")) = 1
               /\ Cardinality(Calls("cache_embeddings")) = 1

\* C14 as stated: when the cache file exists the encoder is never run over
\* the corpus and nothing is persisted; when it does not, the corpus is
\* encoded exactly once and persisted after that, before any index build or
\* query
C14_HitPersistsNothing ==
    /\ CacheExisted =>
           /\ Calls("batch_encode_texts") = {}
           /\ \A i \in 1..Len(main.trace) : ~Wrote(i)
    /\ MissOrder

\* C14 amended: when the cache file exists the encoder is never run over the
\* corpus and the cache file is not written (the notebook workflow still
\* writes the index file and the saved state); when it does not, the corpus
\* is encoded exactly once and persisted after that, before any index build
\* or query
C14_HitLeavesCache ==
    /\ CacheExisted =>
           /\ Calls("batch_encode_texts") = {}
           /\ Calls("cache_embeddings") = {}
           /\ main.variant = "script" => \A i \in 1..Len(main.trace) : ~Wrote(i)
    /\ MissOrder

C14_Witness ==
    /\ main.pc = "done" /\ CacheAbsent /\ main.variant = "script"
    /\ Calls("build_index") /= {}
    /\ fs[CacheFile] = Some(Pickle(df, embeddings))

\* the call made in this step found its file absent
AbsentFileLoad ==
    \/ last'.op = "load_cached_embeddings" /\ fs[CacheFile] = None
    \/ last'.op = "load_state" /\ fs[StateFile] = None
    \/ last'.op = "load_index" /\ indexFile = None

\* C15: with the file absent, load_cached_embeddings returns False without
\* raising, and load_cached_embeddings, load_state and load_index leave the
\* article table, the embeddings and the index as they were
C15_AbsentFileNoChange ==
    [][AbsentFileLoad =>
          /\ last'.status = "ok"
          /\ last'.ret = FALSE
          /\ df' = df
          /\ embeddings' = embeddings
          /\ index' = index
          /\ aliased' = aliased]_vars

C15_Witness ==
    /\ last.op = "load_cached_embeddings" /\ last.status = "ok" /\ ~last.ret
    /\ fs[CacheFile] = None
    /\ df /= None /\ embeddings /= None /\ index /= None

\* the cache file exists but pickle.load raises on it, or the dictionary it
\* returns lacks "df" or "embeddings"
CorruptCache ==
    /\ fs[CacheFile] /= None
    /\ ~Val(fs[CacheFile]).loads \/ ~({"df", "embeddings"} \subseteq Val(fs[CacheFile]).keys)

\* C16: when the cache file exists but cannot be deserialized or lacks an
\* entry, load_cached_embeddings raises and the workflow ends there: it does
\* not re-encode the corpus, does not write the cache file and reaches neither
\* the index build nor the query
C16_CorruptCacheFatal ==
    /\ []((CorruptCache /\ Lookup > 0) =>
            /\ main.pc = "aborted"
            /\ last.op = "load_cached_embeddings" /\ last.status = "error"
            /\ Lookup = Len(main.trace)
            /\ Calls("batch_encode_texts") = {}
            /\ Calls("cache_embeddings") = {}
            /\ Calls("build_index") = {}
            /\ Calls("find_similar_articles") = {})
    /\ [][CorruptCache => fs' = fs]_vars

C16_Witness ==
    /\ CorruptCache /\ Val(fs[CacheFile]).loads
    /\ main.pc = "aborted" /\ last.op = "load_cached_embeddings"
    /\ df /= None /\ NumRows(Val(df)) = 2

\* the file the restore of the last call read
RestoredFrom == Val(fs[IF last.op = "load_state" THEN StateFile ELSE CacheFile])

\* C17: after cache_embeddings (save_state) to a path and, with no write to
\* that path in between, load_cached_embeddings (load_state) from it, the
\* finder holds an article table and an embedding matrix equal, row for row
\* and field for field, to the ones held when the persist was called
C17_PersistRestoreRoundTrip ==
    (last.op \in {"load_cached_embeddings", "load_state"} /\ last.status = "ok" /\ last.ret) =>
        /\ df = RestoredFrom.held.df
        /\ embeddings = RestoredFrom.held.embeddings

C17_Witness ==
    /\ last.op = "load_state" /\ last.status = "ok" /\ last.ret
    /\ df /= None /\ N = 2 /\ Val(df).embedding /= None
    /\ embeddings /= None
    /\ index /= None /\ Val(index) /= Val(embeddings)

\* the texts and the batch size of the last call of batch_encode_texts
LastTexts == last.texts

\* the least c with c * batch_size >= n
CeilDiv(n, batch_size) == (n + batch_size - 1) \div batch_size

\* C18: for a non-empty list of texts and batch_size >= 1, batch_encode_texts
\* returns one vector per text in input order, the batches split the list
\* (each text in exactly one batch), vector i is encode_text(texts[i]), and
\* batch_size decides the number of encoder runs only
C18_BatchingKeepsOutput ==
    (last.op = "batch_encode_texts" /\ LastTexts /= <<>>) =>
        /\ last.status = "ok"
        /\ Len(Val(embeddings)) = Len(LastTexts)
        /\ \A i \in 1..Len(LastTexts) : Val(embeddings)[i] = encode_text(LastTexts[i])
        /\ Concatenate(last.batches) = LastTexts
        /\ \A b \in 1..Len(last.batches) :
               Len(last.batches[b]) >= 1 /\ Len(last.batches[b]) <= last.batch_size
        /\ Len(last.batches) = CeilDiv(Len(LastTexts), last.batch_size)

C18_Witness ==
    /\ last.op = "batch_encode_texts" /\ last.status = "ok"
    /\ Len(LastTexts) = 3 /\ last.batch_size = 2 /\ Len(last.batches) = 2
    /\ LastTexts[1] = LastTexts[3] /\ LastTexts[1] /= LastTexts[2]
    /\ Val(embeddings)[3] = encode_text(LastTexts[3])

\* C19: find_similar_articles changes neither the article table (its columns
\* included) nor the embedding matrix nor the index, and a query repeated with
\* the same text and k returns the same result
C19_FindIsReadOnly ==
    /\ [][last'.op = "find_similar_articles" =>
             /\ df' = df
             /\ embeddings' = embeddings
             /\ index' = index
             /\ aliased' = aliased]_vars
    /\ [][(FindCalled /\ last'.op = "find_similar_articles"
              /\ last'.query = last.query /\ last'.top_k = last.top_k) =>
             last' = last]_vars

C19_Witness ==
    /\ FindOk /\ last.path = "faiss" /\ last.query = "c" /\ last.top_k = 2
    /\ N = 2 /\ Val(df).embedding /= None
    /\ Len(last.results) = 2

\* the command line parse_args was given last
Argv == main.argv

\* word i names the argument d: it is the declared option string or, with
\* abbrev, a prefix of it
Selects(i, d, abbrev) ==
    Argv[i] = KnownFlags[d] \/ (abbrev /\ Argv[i] \in FlagPrefixes[d])

Given(d, abbrev) == {i \in 1..Len(Argv) : Selects(i, d, abbrev)}

\* every flag that takes a value is directly followed by one it accepts
WellFormed(abbrev) ==
    \A d \in Dests \ {"use_faiss"} : \A i \in Given(d, abbrev) :
        /\ i < Len(Argv)
        /\ Argv[i + 1] \in Words
        /\ d = "batch_size" => Argv[i + 1] \in IntWords

\* the value of argument d: the default when the flag is not given, else true
\* for use_faiss and the word after the last occurrence for the others
Expected(d, abbrev) ==
    IF Given(d, abbrev) = {} THEN DefaultArgs[d]
    ELSE IF d = "use_faiss" THEN TRUE
    ELSE LET i == CHOOSE j \in Given(d, abbrev) : \A k \in Given(d, abbrev) : k <= j
         IN  IF d = "batch_size" THEN IntOf(Argv[i + 1]) ELSE Argv[i + 1]

ArgsAsExpected(abbrev) ==
    (last.op = "parse_args" /\ WellFormed(abbrev)) =>
        /\ last.status = "ok"
        /\ \A d \in Dests : Val(main.args)[d] = Expected(d, abbrev)

\* C20 as stated: parse_args accepts any argument list with unknown or extra
\* flags without error and returns the values of the four known flags
\* (defaults when not given, use_faiss false); every word other than the four
\* flags and their values has no effect
C20_UnknownFlagsIgnored == ArgsAsExpected(FALSE)

\* C20 amended: the same, where a flag that abbreviates one of the four known
\* flags counts as that flag; only words that are neither a known flag, nor an
\* abbreviation of one, nor the value of one have no effect
C20_UnabbreviatedFlagsIgnored == ArgsAsExpected(TRUE)

C20_Witness ==
    /\ last.op = "parse_args" /\ last.status = "ok"
    /\ Len(Argv) = 3 /\ Argv[1] = "-f" /\ Argv[2] = "kernel.json" /\ Argv[3] = "--use_faiss"
    /\ main.unknown = <<"-f", "kernel.json">>
    /\ Val(main.args) = [DefaultArgs EXCEPT !.use_faiss = TRUE]

\* what the index returned for the query of the last call: the (distance,
\* label) pairs of IndexFlatL2.search for the normalised query
LastFound ==
    IndexSearch(Val(index), NormalizeL2(encode_text(last.query)), last.top_k, faissTie)

\* the scores of the last call are 1 - d/2 of the distances the index
\* returned, and the results are in ascending order of the distance
ScoresFromDistances ==
    /\ Len(last.results) = Len(LastFound)
    /\ \A r \in 1..Len(last.results) :
           /\ 2 * (ScoreOne - last.results[r].similarity) = LastFound[r].distance
           /\ IlocPos(Val(df), LastFound[r].label) = IlocPos(Val(df), last.results[r].label)
    /\ \A r \in 1..(Len(last.results) - 1) :
           /\ LastFound[r].distance <= LastFound[r + 1].distance
           /\ last.results[r].similarity >= last.results[r + 1].similarity

\* the score of result r is the brute-force cosine similarity of its row
ScoreIsCosine(r) ==
    last.results[r].similarity = LastCosine[last.results[r].label + 1]

\* C21: on the index path every score is 1 - d/2 for the distance d the index
\* returned for that row, the results are in ascending order of d and so in
\* non-increasing order of score, and with the query and the corpus vectors
\* of unit length (the index holds the normalised rows of the table's
\* embedding column) the score of every result is the cosine similarity the
\* brute-force path computes for its row
C21_IndexScoreIsCosine ==
    (FindOk /\ last.path = "faiss") =>
        /\ ScoresFromDistances
        /\ IndexOverTable => \A r \in 1..Len(last.results) : ScoreIsCosine(r)

\* the cache lookup of this run returned True
CacheHit == Lookup > 0 /\ main.trace[Lookup].status = "ok" /\ main.trace[Lookup].ret

\* what the writer of the cache file held when it wrote it
Cached == Val(fs[CacheFile]).held

\* the table load_data returns for the corpus file of this run
Loaded == CleanRows(Val(ReadWithFallback(DataFileAt(Val(main.args).data_file))).rows)

\* (identifier, text) of the rows of a table, of the results of a query
Articles(rows) == {<<rows[i].dieu, rows[i].truncated_text>> : i \in 1..Len(rows)}

\* C22: on a cache hit the cached table and the cached embeddings replace the
\* table load_data returned in this run, whatever the corpus file holds now;
\* the run goes on to its end without an error, the table stays the cached
\* one, and every row a query returns is an article of the cached corpus
C22_StaleCacheServed ==
    /\ [][(last'.op = "load_cached_embeddings" /\ last'.status = "ok" /\ last'.ret) =>
            /\ df' = Val(fs[CacheFile]).held.df
            /\ embeddings' = Val(fs[CacheFile]).held.embeddings
            /\ fs' = fs]_vars
    /\ [](CacheHit =>
            /\ main.pc /= "aborted"
            /\ \A i \in (Lookup + 1)..Len(main.trace) : main.trace[i].status = "ok"
            /\ Calls("load_data") \cup Calls("batch_encode_texts") \subseteq 1..Lookup
            /\ df /= None /\ Cached.df /= None
            /\ Val(df).rows = Val(Cached.df).rows
            /\ FindCalled =>
                   /\ FindOk
                   /\ Len(last.results) >= 1
                   /\ Articles(last.results) \subseteq Articles(Val(Cached.df).rows))

\* a run over a corpus file that holds the articles "c" and "a" hits a cache
\* written over the articles "a" and "b" and answers the query with these
C22_Witness ==
    /\ CacheHit /\ main.pc = "done" /\ FindOk
    /\ Articles(Loaded) = {<<"D2", "c">>, <<"D1", "a">>}
    /\ Articles(Val(Cached.df).rows) = {<<"D1", "a">>, <<"D2", "b">>}
    /\ Articles(last.results) = {<<"D1", "a">>, <<"D2", "b">>}
    /\ last.path = "cosine"

\* C23: build_index changes neither the finder's embedding matrix nor the
\* article table's embedding column, so the state save_state persists after
\* an index build holds the embedding values of the cache written before it
C23_BuildIndexKeepsCorpus ==
    /\ [][last'.op = "build_index" => (embeddings' = embeddings /\ df' = df)]_vars
    /\ []((main.pc = "done" /\ CacheAbsent /\ Calls("build_index") /= {}
              /\ Calls("save_state") /= {}) =>
            /\ Val(fs[StateFile]).embeddings = Val(fs[CacheFile]).embeddings
            /\ Val(fs[StateFile]).df = Val(fs[CacheFile]).df)

\* C24: build_index raises nothing; with the index library available and
\* embeddings set it sets an index, otherwise it leaves the index field as it
\* was; the index it sets is a fresh one that holds one vector per row of the
\* embedding matrix, also when the finder already had an index
C24_BuildIndexIff ==
    /\ [][last'.op = "build_index" =>
            /\ last'.status = "ok"
            /\ last'.ret = (faiss /\ embeddings /= None)
            /\ IF faiss /\ embeddings /= None
               THEN /\ index' /= None
                    /\ Len(Val(index')) = Len(Val(embeddings))
                    /\ Val(index') = NormalizeRows(Val(embeddings))
               ELSE index' = index]_vars
    /\ []((last.op = "build_index" /\ last.ret) =>
            /\ index /= None /\ embeddings /= None
            /\ Len(Val(index)) = Len(Val(embeddings)))

\* a second build over two rows, in a finder whose index was built before
C24_Witness ==
    /\ last.op = "build_index" /\ last.ret /\ last.replaced
    /\ Len(Val(embeddings)) = 2
    /\ Len(Val(index)) = 2

\* the run that wrote the cache file, and the answer it gave
Before == Val(main.before)

\* this run reads the corpus file and has the index setting of the run that
\* wrote the cache, hits the cache and is asked the query that run was asked
SameRunAgain ==
    /\ main.pc = "done" /\ main.before /= None /\ CacheHit
    /\ Val(main.args).data_file = Before.args.data_file
    /\ Val(main.args).use_faiss = Before.args.use_faiss
    /\ last.query = Before.answer.query
    /\ last.top_k = Before.answer.top_k

\* C25: for the same corpus file and the same index setting, a run that hits
\* the cache answers a query with the rows, in the order and with the scores,
\* the run that missed the cache and wrote it answered it with
C25_HitAnswersAsMiss ==
    SameRunAgain =>
        /\ last.status = Before.answer.status
        /\ last.path = Before.answer.path
        /\ last.top_indices = Before.answer.top_indices
        /\ last.results = Before.answer.results

\* the index path over two articles in both runs, the nearer article (the
\* second row of the table) first
C25_Witness ==
    /\ SameRunAgain /\ FindOk
    /\ last.path = "faiss" /\ last.query = "a" /\ last.top_k = 2
    /\ Len(last.results) = 2
    /\ last.results[1].truncated_text = "a" /\ last.results[2].truncated_text = "c"
    /\ last.results[1].similarity > last.results[2].similarity

\* the finder has no article table, or its table has no embedding column
\* while no index is set
NothingToSearch ==
    \/ df = None
    \/ Val(df).embedding = None /\ index = None

\* C26: find_similar_articles on a finder without an article table, or with
\* a table without the embedding column and no index, ends in an error and
\* returns no result table, neither an empty nor a partial one
C26_FindWithoutCorpusRaises ==
    (FindCalled /\ NothingToSearch) =>
        /\ last.status = "error"
        /\ last.results = <<>>
        /\ last.top_indices = <<>>

\* a new finder into which a saved index was loaded: the index answers, the
\* lookup of the rows raises
C26_Witness ==
    /\ FindCalled /\ last.status = "error"
    /\ df = None /\ index /= None /\ Len(Val(index)) = 2
    /\ last.path = "faiss"

\* batch_encode_texts, in either variant, was called last on no text at all
EncodedNothing ==
    /\ last.op \in {"batch_encode_texts", "script.batch_encode_texts"}
    /\ last.texts = <<>>

\* C27: on the empty text list batch_encode_texts raises nothing and returns
\* an embedding matrix with zero rows, the method of the class as the
\* function of the script
C27_EmptyCorpusEncodes ==
    EncodedNothing =>
        /\ last.status = "ok"
        /\ embeddings = Some(<<>>)

====
